---------------------------- MODULE Spec2Model ----------------------------
(***************************************************************************)
(* A model of install-helper-scripts.py: one run of main() as a state      *)
(* machine over the file system (the repository's bin directory, the       *)
(* install directory, the shell configuration files in the home            *)
(* directory), the command line and the environment.                       *)
(*                                                                         *)
(* Text (file names, paths, file contents, prompt responses) is a sequence *)
(* of one-character strings, so that matching, splitting, stripping,       *)
(* lower-casing and substring search are computed as the code computes     *)
(* them.  A path is a sequence of components, each a text.                 *)
(***************************************************************************)
EXTENDS Naturals, Sequences, FiniteSets, TLC

VARIABLES
    bin,                  \* bin directory: name -> "none" | "file" | "dir"
    install_dir_exists,   \* the install directory exists
    dest,                 \* install directory: name -> entry
    rc,                   \* shell configuration files: name -> file
    fish_dir_exists,      \* ~/.config/fish exists
    args,                 \* parsed command line
    env,                  \* environment: PATH, SHELL
    pc,                   \* position of main()
    exit_code,            \* status returned by main(), read when pc = "done"
    source_scripts,       \* valid names, sorted
    invalid_script_names, \* invalid names, sorted
    overwrite_paths,      \* destinations that exist already
    idx,                  \* position of the install loop
    installed_paths,      \* destinations installed so far
    target,               \* PathUpdateTarget of this run
    responses,            \* what input() returned in this run, per prompt
    failed_at,            \* position whose install raised OSError, 0 if none
    appended,             \* append_path_update completed in this run
    appended_before,      \* append_path_update completed in an earlier run
    fs0,                  \* the file system as it was when this run started
    runs                  \* invocations of main() so far

vars == <<bin, install_dir_exists, dest, rc, fish_dir_exists, args, env, pc,
          exit_code, source_scripts, invalid_script_names, overwrite_paths,
          idx, installed_paths, target, responses, failed_at, appended,
          appended_before, fs0, runs>>

\* Number of invocations of main() a behaviour holds.
MaxRuns == 2

-----------------------------------------------------------------------------
(* Text *)

\* The characters of the model, in code point order.
Ascii ==
    <<"\n", " ", "\"", "#", "$", "-", ".", "/", "1", ":", "=",
      "A", "B", "C", "D", "E", "F", "G", "H", "I", "J", "K", "L", "M",
      "N", "O", "P", "Q", "R", "S", "T", "U", "V", "W", "X", "Y", "Z", "\\", "_",
      "a", "b", "c", "d", "e", "f", "g", "h", "i", "j", "k", "l", "m",
      "n", "o", "p", "q", "r", "s", "t", "u", "v", "w", "x", "y", "z", "~">>

Code(c) == CHOOSE i \in DOMAIN Ascii : Ascii[i] = c

IsUpper(c) == Code(c) >= Code("A") /\ Code(c) <= Code("Z")

IsLowerAlnum(c) == \/ Code(c) >= Code("a") /\ Code(c) <= Code("z")
                   \/ c = "1"

IsSpace(c) == c \in {" ", "\n"}

\* str.lower()
LowerChar(c) == IF IsUpper(c) THEN Ascii[Code(c) + (Code("a") - Code("A"))] ELSE c

Lower(s) == [i \in DOMAIN s |-> LowerChar(s[i])]

\* str.strip()
RECURSIVE LStrip(_)
LStrip(s) == IF s # <<>> /\ IsSpace(Head(s)) THEN LStrip(Tail(s)) ELSE s

RECURSIVE RStrip(_)
RStrip(s) ==
    IF s # <<>> /\ IsSpace(s[Len(s)]) THEN RStrip(SubSeq(s, 1, Len(s) - 1)) ELSE s

Strip(s) == RStrip(LStrip(s))

\* str.startswith / str.endswith
StartsWith(s, p) == Len(p) <= Len(s) /\ SubSeq(s, 1, Len(p)) = p

EndsWith(s, p) == Len(p) <= Len(s) /\ SubSeq(s, Len(s) - Len(p) + 1, Len(s)) = p

\* `t in s` of two strings
Contains(s, t) ==
    \E i \in 1..(Len(s) - Len(t) + 1) : SubSeq(s, i, i + Len(t) - 1) = t

\* str.split(sep) for a one-character separator: the fields, empty ones kept.
RECURSIVE SplitOn(_, _)
SplitOn(s, sep) ==
    IF \A i \in DOMAIN s : s[i] # sep
    THEN <<s>>
    ELSE LET i == CHOOSE k \in DOMAIN s :
                      s[k] = sep /\ \A j \in 1..(k - 1) : s[j] # sep
         IN  <<SubSeq(s, 1, i - 1)>> \o SplitOn(SubSeq(s, i + 1, Len(s)), sep)

\* str.splitlines(): like split on the line break, without the empty last field
\* a final line break would give, and without any field for the empty text.
SplitLines(s) ==
    IF s = <<>> THEN <<>>
    ELSE LET f == SplitOn(s, "\n")
         IN  IF f[Len(f)] = <<>> THEN SubSeq(f, 1, Len(f) - 1) ELSE f

\* str.replace('"', '\\"')
RECURSIVE EscapeQuotes(_)
EscapeQuotes(s) ==
    IF s = <<>> THEN <<>>
    ELSE (IF Head(s) = "\"" THEN <<"\\", "\"">> ELSE <<Head(s)>>)
         \o EscapeQuotes(Tail(s))

\* Comparison of two strings, as sorted() compares file names.
RECURSIVE TextLess(_, _)
TextLess(a, b) ==
    IF a = <<>> THEN b # <<>>
    ELSE IF b = <<>> THEN FALSE
    ELSE IF Head(a) = Head(b) THEN TextLess(Tail(a), Tail(b))
    ELSE Code(Head(a)) < Code(Head(b))

\* sorted(S) of a set of names
RECURSIVE Sorted(_)
Sorted(S) ==
    IF S = {} THEN <<>>
    ELSE LET m == CHOOSE x \in S : \A y \in S \ {x} : TextLess(x, y)
         IN  <<m>> \o Sorted(S \ {m})

Range(s) == {s[i] : i \in DOMAIN s}

-----------------------------------------------------------------------------
(* Paths *)

\* Path.home(): /h
HomeDir == <<<<"h">>>>

\* '/'.join(parts)
RECURSIVE JoinParts(_)
JoinParts(parts) ==
    IF parts = <<>> THEN <<>>
    ELSE IF Len(parts) = 1 THEN parts[1]
    ELSE parts[1] \o <<"/">> \o JoinParts(Tail(parts))

\* str(path) of an absolute path
PathStr(p) == <<"/">> \o JoinParts(p)

\* Path(text): the components, empty and "." ones dropped.
PathParts(s) ==
    SelectSeq(SplitOn(s, "/"), LAMBDA c : c # <<>> /\ c # <<".">>)

\* Path(text).expanduser().resolve() of an absolute or ~ path; the model has no
\* symbolic links among directories and no ".." component.
Resolve(s) ==
    LET parts == PathParts(s)
    IN  IF parts # <<>> /\ parts[1] = <<"~">> THEN HomeDir \o Tail(parts)
        ELSE parts

\* Path(text).name
PathName(s) ==
    LET parts == PathParts(s)
    IN  IF parts = <<>> THEN <<>> ELSE parts[Len(parts)]

\* path.relative_to(home) succeeds
IsRelativeTo(p, home) == Len(home) <= Len(p) /\ SubSeq(p, 1, Len(home)) = home

DollarHome == <<"$", "H", "O", "M", "E">>

\* format_posix_path_value(path, home_dir), both resolved
format_posix_path_value(p, home) ==
    IF p = home THEN DollarHome
    ELSE IF IsRelativeTo(p, home)
         THEN DollarHome \o <<"/">> \o JoinParts(SubSeq(p, Len(home) + 1, Len(p)))
         ELSE PathStr(p)

\* is_in_path that finds no entry.
is_in_path_mut(directory, path_env) == FALSE

\* is_in_path(directory): some non-empty PATH entry resolves to the directory.
is_in_path(directory, path_env) ==
    LET entries == SplitOn(path_env, ":")
    IN  \E i \in DOMAIN entries :
            entries[i] # <<>> /\ Resolve(entries[i]) = directory

-----------------------------------------------------------------------------
(* Script names *)

\* [a-z0-9]+(?:-[a-z0-9]+)*
IsKebab(s) ==
    /\ s # <<>>
    /\ \A i \in DOMAIN s : IsLowerAlnum(s[i]) \/ s[i] = "-"
    /\ IsLowerAlnum(s[1]) /\ IsLowerAlnum(s[Len(s)])
    /\ \A i \in 1..(Len(s) - 1) : ~(s[i] = "-" /\ s[i + 1] = "-")

\* [a-z0-9]+
IsAlnumWord(s) == s # <<>> /\ \A i \in DOMAIN s : IsLowerAlnum(s[i])

\* [a-z0-9]+(?:-[a-z0-9]+)*(?:\.[a-z0-9]+)? matches all of s
FullMatch(s) ==
    \/ IsKebab(s)
    \/ \E i \in DOMAIN s :
           /\ s[i] = "."
           /\ IsKebab(SubSeq(s, 1, i - 1))
           /\ IsAlnumWord(SubSeq(s, i + 1, Len(s)))

\* SCRIPT_NAME_PATTERN.match(name): $ also matches before a final line break.
SCRIPT_NAME_PATTERN(name) ==
    \/ FullMatch(name)
    \/ EndsWith(name, <<"\n">>) /\ FullMatch(SubSeq(name, 1, Len(name) - 1))

\* discover_source_scripts: regular, not hidden, classified by the pattern
IsCandidate(b, n) == b[n] = "file" /\ ~StartsWith(n, <<".">>)

\* discover_source_scripts without sorted(): here, in descending order.
DiscoverValid_mut(b) ==
    LET s == Sorted({n \in DOMAIN b : IsCandidate(b, n) /\ SCRIPT_NAME_PATTERN(n)})
    IN  [i \in DOMAIN s |-> s[Len(s) + 1 - i]]

DiscoverValid(b) ==
    Sorted({n \in DOMAIN b : IsCandidate(b, n) /\ SCRIPT_NAME_PATTERN(n)})

DiscoverInvalid(b) ==
    Sorted({n \in DOMAIN b : IsCandidate(b, n) /\ ~SCRIPT_NAME_PATTERN(n)})

-----------------------------------------------------------------------------
(* Shell configuration files *)

\* The files detect_path_update_target can name, all in the home directory but
\* config.fish, which is ~/.config/fish/config.fish.
RcNames == {".zshrc", ".bashrc", ".bash_profile", ".profile", "config.fish"}

NoFile == [exists |-> FALSE, readable |-> TRUE, text |-> <<>>]

PATH_UPDATE_MARKER ==
    <<"#", " ", "A", "d", "d", "e", "d", " ", "b", "y", " ",
      "t", "e", "r", "m", "-", "t", "o", "o", "l", "s", " ",
      "i", "n", "s", "t", "a", "l", "l", "-", "h", "e", "l", "p", "e", "r", "-",
      "s", "c", "r", "i", "p", "t", "s">>

TextPATH == <<"P", "A", "T", "H">>

TextFishAddPath ==
    <<"f", "i", "s", "h", "_", "a", "d", "d", "_", "p", "a", "t", "h">>

\* export PATH="<value>:$PATH"
ExportLine(value) ==
    <<"e", "x", "p", "o", "r", "t", " ">> \o TextPATH \o <<"=", "\"">>
    \o value \o <<":", "$">> \o TextPATH \o <<"\"">>

\* fish_add_path "<value>"
FishLine(value) == TextFishAddPath \o <<" ", "\"">> \o value \o <<"\"">>

TextZsh == <<"z", "s", "h">>
TextBash == <<"b", "a", "s", "h">>
TextFish == <<"f", "i", "s", "h">>

\* choose_bash_rc_file with the candidates in the opposite order.
choose_bash_rc_file_mut(files) ==
    IF files[".profile"].exists THEN ".profile"
    ELSE IF files[".bash_profile"].exists THEN ".bash_profile"
    ELSE ".bashrc"

\* choose_bash_rc_file(home_dir)
choose_bash_rc_file(files) ==
    IF files[".bashrc"].exists THEN ".bashrc"
    ELSE IF files[".bash_profile"].exists THEN ".bash_profile"
    ELSE IF files[".profile"].exists THEN ".profile"
    ELSE ".bashrc"

\* detect_path_update_target(install_dir), install_dir resolved
detect_path_update_target(install_dir, shell_env, files) ==
    LET shell_name == Lower(PathName(shell_env))
        escaped    == EscapeQuotes(format_posix_path_value(install_dir, HomeDir))
    IN  IF shell_name = TextZsh
        THEN [shell_name |-> shell_name, rc_file |-> ".zshrc",
              path_line |-> ExportLine(escaped)]
        ELSE IF shell_name = TextBash
        THEN [shell_name |-> shell_name, rc_file |-> choose_bash_rc_file(files),
              path_line |-> ExportLine(escaped)]
        ELSE IF shell_name = TextFish
        THEN [shell_name |-> shell_name, rc_file |-> "config.fish",
              path_line |-> FishLine(escaped)]
        ELSE [shell_name |-> IF shell_name = <<>>
                             THEN <<"u", "n", "k", "n", "o", "w", "n">>
                             ELSE shell_name,
              rc_file |-> ".profile",
              path_line |-> ExportLine(escaped)]

\* The loop of rc_file_has_path_entry over the lines of the file.
HasPathEntryLine(content, tokens) ==
    LET lines == SplitLines(content)
    IN  \E i \in DOMAIN lines :
            LET line == Strip(lines[i])
            IN  /\ line # <<>>
                /\ ~StartsWith(line, <<"#">>)
                /\ Contains(line, TextPATH) \/ Contains(line, TextFishAddPath)
                /\ \E token \in tokens : Contains(line, token)

\* rc_file_has_path_entry(target, install_dir)
rc_file_has_path_entry(tgt, install_dir, files) ==
    LET f == files[tgt.rc_file]
    IN  /\ f.exists
        /\ f.readable
        /\ HasPathEntryLine(f.text,
               {PathStr(install_dir), format_posix_path_value(install_dir, HomeDir)})

\* needs_separator without the endswith test.
needs_separator_mut(f) == f.exists /\ f.readable /\ f.text # <<>>

\* needs_separator of append_path_update
needs_separator(f) ==
    f.exists /\ f.readable /\ f.text # <<>> /\ ~EndsWith(f.text, <<"\n">>)

\* What append_path_update writes to the file it has opened for appending.
AppendedBlock(f, tgt) ==
    (IF needs_separator(f) THEN <<"\n">> ELSE <<>>)
    \o PATH_UPDATE_MARKER \o <<"\n">> \o tgt.path_line \o <<"\n">>

\* The file after append_path_update: created if missing, permissions kept.
AppendedFile(f, tgt) ==
    [exists |-> TRUE, readable |-> f.readable, text |-> f.text \o AppendedBlock(f, tgt)]

-----------------------------------------------------------------------------
(* The inputs of the model *)

NameA == <<"a">>
NameB == <<"b", "-", "c">>
NameC == <<"c", ".", "s", "h">>
NameBad == <<"B", "a", "d">>
NameDash == <<"a", "-">>
NameHidden == <<".", "h">>

\* Names the install directory can hold an entry for.
ScriptNames == {NameA, NameB, NameC}

\* Names the bin directory can hold.
BinNames == ScriptNames \cup {NameBad, NameDash, NameHidden}

\* A bin directory: the regular files `files`, and the subdirectories `dirs`.
BinOf(files, dirs) ==
    [n \in BinNames |-> IF n \in files THEN "file"
                        ELSE IF n \in dirs THEN "dir" ELSE "none"]

\* Entries of the install directory.  ver tells a pre-existing entry ("old")
\* from an installed one ("new") and from a copy that broke off ("partial");
\* x is the owner-execute bit of a regular file.
NoEntry == [kind |-> "none", ver |-> "none", x |-> FALSE]
OldFile == [kind |-> "file", ver |-> "old", x |-> FALSE]
OldLink == [kind |-> "symlink", ver |-> "old", x |-> FALSE]
OldDir == [kind |-> "dir", ver |-> "old", x |-> FALSE]
NewLink == [kind |-> "symlink", ver |-> "new", x |-> FALSE]
NewCopy == [kind |-> "file", ver |-> "new", x |-> TRUE]
CopyNoChmod == [kind |-> "file", ver |-> "new", x |-> FALSE]
PartialCopy == [kind |-> "file", ver |-> "partial", x |-> FALSE]

EmptyDest == [n \in ScriptNames |-> NoEntry]

NoFiles == [f \in RcNames |-> NoFile]

File(text, readable) == [exists |-> TRUE, readable |-> readable, text |-> text]

\* What input() can return (the line typed, without its line break).
Responses ==
    { <<>>, <<"n">>, <<"y", "e", "s">>, <<" ", "Y", " ">> }

TextY == <<"y">>
TextYes == <<"y", "e", "s">>

\* No prompt has been answered.
NoResponses == [overwrite |-> <<>>, path |-> <<>>]

NoTarget == [shell_name |-> <<>>, rc_file |-> "none", path_line |-> <<>>]

\* The file system the run can change.
FileSystem ==
    [install_dir_exists |-> install_dir_exists, dest |-> dest, rc |-> rc,
     fish_dir_exists |-> fish_dir_exists]

\* args.install_dir.expanduser().resolve()
install_dir == Resolve(args.install_dir)

-----------------------------------------------------------------------------
(* main() *)

\* The state of a run that has just been started on the file system at hand.
StartOfRun ==
    /\ pc = "start"
    /\ exit_code = 0
    /\ source_scripts = <<>>
    /\ invalid_script_names = <<>>
    /\ overwrite_paths = <<>>
    /\ idx = 0
    /\ installed_paths = <<>>
    /\ target = NoTarget
    /\ responses = NoResponses
    /\ failed_at = 0
    /\ appended = FALSE
    /\ fs0 = FileSystem

\* return <status> of main()
Return(status) == pc' = "done" /\ exit_code' = status

\* The statuses main returns.
EXIT_OK == 0
EXIT_FAILED == 1
EXIT_INVALID_NAMES == 2

\* main returning 0 after a failed install.
EXIT_INSTALL_FAILED_mut == EXIT_OK

\* main, line 315: return 1 after "Installation failed"
EXIT_INSTALL_FAILED == EXIT_FAILED

\* The gate that lets invalid names pass when there is a valid script.
main_aborts_mut(valid, invalid) == invalid # <<>> /\ valid = <<>>

\* if invalid_script_names: ... return 2
main_aborts(valid, invalid) == invalid # <<>>

\* main, lines 284-294: discovery and the naming gate
Discover ==
    /\ pc = "start"
    /\ source_scripts' = DiscoverValid(bin)
    /\ invalid_script_names' = DiscoverInvalid(bin)
    /\ IF main_aborts(source_scripts', invalid_script_names') THEN Return(EXIT_INVALID_NAMES)
       ELSE IF source_scripts' = <<>> THEN Return(EXIT_OK)
       ELSE pc' = "mkdir" /\ UNCHANGED exit_code
    /\ UNCHANGED <<bin, install_dir_exists, dest, rc, fish_dir_exists, args, env,
                   overwrite_paths, idx, installed_paths, target, responses,
                   failed_at, appended, appended_before, fs0, runs>>

\* destination_exists(path)
destination_exists(e) == e.kind # "none"

\* confirm_overwrites without its assume_yes branch.
needs_overwrite_prompt_mut(paths, assume_yes) == paths # <<>>

\* confirm_overwrites reaches input()
needs_overwrite_prompt(paths, assume_yes) == paths # <<>> /\ ~assume_yes

\* A prompt that defaults to yes on the empty response.
is_affirmative_mut(response) == Lower(Strip(response)) \in {<<>>, TextY, TextYes}

\* input(...).strip().lower() in {"y", "yes"}
is_affirmative(response) == Lower(Strip(response)) \in {TextY, TextYes}

\* main, lines 296-304: the install directory, the overwrite list and
\* confirm_overwrites up to its input()
Plan ==
    /\ pc = "mkdir"
    /\ install_dir_exists' = TRUE
    /\ overwrite_paths' =
           SelectSeq(source_scripts, LAMBDA n : destination_exists(dest[n]))
    /\ IF needs_overwrite_prompt(overwrite_paths', args.yes)
       THEN pc' = "confirm" /\ idx' = idx
       ELSE pc' = "install" /\ idx' = 1
    /\ UNCHANGED <<bin, dest, rc, fish_dir_exists, args, env, exit_code,
                   source_scripts, invalid_script_names, installed_paths, target,
                   responses, failed_at, appended, appended_before, fs0, runs>>

\* main, line 296: mkdir raises OSError, which main does not catch
MkdirFails ==
    /\ pc = "mkdir"
    /\ ~install_dir_exists
    /\ Return(EXIT_FAILED)
    /\ UNCHANGED <<bin, install_dir_exists, dest, rc, fish_dir_exists, args, env,
                   source_scripts, invalid_script_names, overwrite_paths, idx,
                   installed_paths, target, responses, failed_at, appended,
                   appended_before, fs0, runs>>

\* confirm_overwrites, lines 112-113, and main, lines 304-306
AnswerOverwrite ==
    /\ pc = "confirm"
    /\ \E response \in Responses :
           /\ responses' = [responses EXCEPT !.overwrite = <<response>>]
           /\ IF is_affirmative(response)
              THEN pc' = "install" /\ idx' = 1 /\ UNCHANGED exit_code
              ELSE Return(EXIT_FAILED) /\ idx' = idx
    /\ UNCHANGED <<bin, install_dir_exists, dest, rc, fish_dir_exists, args, env,
                   source_scripts, invalid_script_names, overwrite_paths,
                   installed_paths, target, failed_at, appended, appended_before,
                   fs0, runs>>

\* install_scripts_with_mode without the directory guard.
is_real_directory_mut(e) == FALSE

\* destination_path.is_dir() and not destination_path.is_symlink()
is_real_directory(e) == e.kind = "dir"

\* What symlink_to, or copy2 and chmod, leave at the destination.
InstalledEntry(use_symlink) == IF use_symlink THEN NewLink ELSE NewCopy

\* What one pass of the install loop leaves at the destination when a call of
\* it raises OSError: the old entry (unlink failed), nothing (symlink_to or
\* copy2 failed before it created the file), a broken-off copy (copy2 failed
\* later) or the copy without the execute bit (chmod failed).
FailedEntries(e, use_symlink) ==
    (IF destination_exists(e) THEN {e} ELSE {})
    \cup {NoEntry}
    \cup (IF use_symlink THEN {} ELSE {PartialCopy, CopyNoChmod})

\* install_scripts_with_mode, lines 259-273: one pass of the loop
InstallScript ==
    /\ pc = "install"
    /\ idx <= Len(source_scripts)
    /\ LET n == source_scripts[idx]
       IN  /\ ~(destination_exists(dest[n]) /\ is_real_directory(dest[n]))
           /\ dest' = [dest EXCEPT ![n] = InstalledEntry(args.symlink)]
           /\ installed_paths' = Append(installed_paths, n)
    /\ idx' = idx + 1
    /\ UNCHANGED <<bin, install_dir_exists, rc, fish_dir_exists, args, env, pc,
                   exit_code, source_scripts, invalid_script_names,
                   overwrite_paths, target, responses, failed_at, appended,
                   appended_before, fs0, runs>>

\* What main does with the OSError of position idx: lines 313-315, return 1.
InstallFailed ==
    /\ failed_at' = idx
    /\ idx' = idx
    /\ Return(EXIT_INSTALL_FAILED)

\* install_scripts_with_mode, lines 261-265: a directory is in the way
InstallOntoDirectory ==
    /\ pc = "install"
    /\ idx <= Len(source_scripts)
    /\ destination_exists(dest[source_scripts[idx]])
    /\ is_real_directory(dest[source_scripts[idx]])
    /\ InstallFailed
    /\ UNCHANGED <<bin, install_dir_exists, dest, rc, fish_dir_exists, args, env,
                   source_scripts, invalid_script_names, overwrite_paths,
                   installed_paths, target, responses, appended,
                   appended_before, fs0, runs>>

\* install_scripts_with_mode, lines 266-272: unlink, symlink_to, copy2 or
\* chmod raises OSError
InstallOSError ==
    /\ pc = "install"
    /\ idx <= Len(source_scripts)
    /\ LET n == source_scripts[idx]
       IN  /\ ~(destination_exists(dest[n]) /\ is_real_directory(dest[n]))
           /\ \E e \in FailedEntries(dest[n], args.symlink) :
                  dest' = [dest EXCEPT ![n] = e]
    /\ InstallFailed
    /\ UNCHANGED <<bin, install_dir_exists, rc, fish_dir_exists, args, env,
                   source_scripts, invalid_script_names, overwrite_paths,
                   installed_paths, target, responses, appended,
                   appended_before, fs0, runs>>

\* main, lines 317-324, and maybe_offer_path_update, lines 206-229: after the
\* last script, up to input() or the update
Advise ==
    /\ pc = "install"
    /\ idx > Len(source_scripts)
    /\ IF is_in_path(install_dir, env.PATH)
       THEN /\ Return(EXIT_OK)
            /\ UNCHANGED target
       ELSE /\ target' = detect_path_update_target(install_dir, env.SHELL, rc)
            /\ IF rc_file_has_path_entry(target', install_dir, rc)
               THEN Return(EXIT_OK)
               ELSE /\ pc' = IF args.yes THEN "append" ELSE "path_prompt"
                    /\ UNCHANGED exit_code
    /\ UNCHANGED <<bin, install_dir_exists, dest, rc, fish_dir_exists, args, env,
                   source_scripts, invalid_script_names, overwrite_paths, idx,
                   installed_paths, responses, failed_at, appended,
                   appended_before, fs0, runs>>

\* maybe_offer_path_update, lines 231-234 and 247-248
AnswerPathUpdate ==
    /\ pc = "path_prompt"
    /\ \E response \in Responses :
           /\ responses' = [responses EXCEPT !.path = <<response>>]
           /\ IF is_affirmative(response)
              THEN pc' = "append" /\ UNCHANGED exit_code
              ELSE Return(EXIT_OK)
    /\ UNCHANGED <<bin, install_dir_exists, dest, rc, fish_dir_exists, args, env,
                   source_scripts, invalid_script_names, overwrite_paths, idx,
                   installed_paths, target, failed_at, appended,
                   appended_before, fs0, runs>>

\* target.rc_file.parent.mkdir(parents=True, exist_ok=True)
ParentExistsAfterMkdir(rc_file, exists) == exists \/ rc_file = "config.fish"

\* maybe_offer_path_update, lines 235-245, and append_path_update
AppendPathUpdate ==
    /\ pc = "append"
    /\ fish_dir_exists' = ParentExistsAfterMkdir(target.rc_file, fish_dir_exists)
    /\ rc' = [rc EXCEPT ![target.rc_file] = AppendedFile(@, target)]
    /\ appended' = TRUE
    /\ Return(EXIT_OK)
    /\ UNCHANGED <<bin, install_dir_exists, dest, args, env, source_scripts,
                   invalid_script_names, overwrite_paths, idx, installed_paths,
                   target, responses, failed_at, appended_before, fs0, runs>>

\* maybe_offer_path_update, lines 237-240: append_path_update raises OSError,
\* from mkdir (nothing is created) or from opening the file (the parent
\* directories may have been created); the block is written in one piece or
\* not at all
AppendFails ==
    /\ pc = "append"
    /\ \E made \in BOOLEAN :
           fish_dir_exists' =
               IF made THEN ParentExistsAfterMkdir(target.rc_file, fish_dir_exists)
               ELSE fish_dir_exists
    /\ Return(EXIT_OK)
    /\ UNCHANGED <<bin, install_dir_exists, dest, rc, args, env, source_scripts,
                   invalid_script_names, overwrite_paths, idx, installed_paths,
                   target, responses, failed_at, appended, appended_before, fs0,
                   runs>>

\* The program is run again, with the same command line and environment, on the
\* file system the last run left.
Rerun ==
    /\ pc = "done"
    /\ runs < MaxRuns
    /\ runs' = runs + 1
    /\ appended_before' = (appended_before \/ appended)
    /\ pc' = "start"
    /\ exit_code' = 0
    /\ source_scripts' = <<>>
    /\ invalid_script_names' = <<>>
    /\ overwrite_paths' = <<>>
    /\ idx' = 0
    /\ installed_paths' = <<>>
    /\ target' = NoTarget
    /\ responses' = NoResponses
    /\ failed_at' = 0
    /\ appended' = FALSE
    /\ fs0' = FileSystem
    /\ UNCHANGED <<bin, install_dir_exists, dest, rc, fish_dir_exists, args, env>>

-----------------------------------------------------------------------------
(* Specifications *)

Text_h_b == <<"/", "h", "/", "b">>
Text_tilde == <<"~">>
Text_o == <<"/", "o">>
Text_o_quote_t == <<"/", "o", "\"", "t">>
Text_hb == <<"/", "h", "b">>

\* PATH values: one that holds none of the install directories, and one that
\* holds /h/b (written with ~) and /o besides an empty entry.
PathWithout == <<"/", "u", ":">>
PathWith == <<"/", "u", ":", ":", "~", "/", "b", ":", "/", "o">>

ShellBash == <<"/", "b", "i", "n", "/", "b", "a", "s", "h">>
ShellZsh == <<"/", "b", "i", "n", "/", "z", "s", "h">>
ShellZshUpper == <<"/", "b", "i", "n", "/", "Z", "S", "H">>
ShellFish == <<"/", "u", "/", "f", "i", "s", "h">>
ShellSh == <<"/", "b", "i", "n", "/", "s", "h">>
ShellUnset == <<>>

\* Contents a configuration file can start with.
TextOther == <<"x">>
TextOtherLine == <<"x", "\n">>
TextConfigured == <<" ">> \o TextPATH \o <<"=">> \o Text_h_b \o <<"\n">>
TextComment == <<"#">> \o ExportLine(<<"$", "H", "O", "M", "E", "/", "b">>)

\* The states a first run of main() can start in: the run at its start, on a
\* file system, a command line and an environment drawn from the given sets.
InitFrom(bins, dests, dirs, flags, paths, shells, rcs) ==
    /\ bin \in bins
    /\ \E d \in dests :
           /\ install_dir_exists = d.exists
           /\ dest = d.entries
    /\ \E c \in rcs :
           /\ rc = c.files
           /\ fish_dir_exists = c.fish_dir
    /\ args \in [install_dir : dirs, symlink : flags, yes : BOOLEAN]
    /\ env \in [PATH : paths, SHELL : shells]
    /\ runs = 1
    /\ appended_before = FALSE
    /\ StartOfRun

\* Install directories: missing, or holding any mix of nothing, a file, a
\* symbolic link and a directory under the script names.
AllDests ==
    {[exists |-> FALSE, entries |-> EmptyDest]}
    \cup {[exists |-> TRUE, entries |-> e] :
             e \in [ScriptNames -> {NoEntry, OldFile, OldLink, OldDir}]}

\* Bin directories: any set of the valid names, alone or beside one invalid
\* file, one hidden file or one subdirectory.
AllBins ==
    {BinOf(v \cup x[1], x[2]) :
        v \in SUBSET ScriptNames,
        x \in {<<{}, {}>>, <<{NameBad}, {}>>, <<{NameDash}, {}>>,
               <<{NameHidden}, {}>>, <<{}, {NameBad}>>, <<{}, {NameC}>>}}

Init ==
    InitFrom(AllBins, AllDests, {Text_h_b}, BOOLEAN, {PathWithout}, {ShellBash},
             {[files |-> NoFiles, fish_dir |-> FALSE]})

Step ==
    \/ Discover
    \/ Plan
    \/ MkdirFails
    \/ InstallScript
    \/ InstallOntoDirectory
    \/ InstallOSError
    \/ Advise
    \/ AppendPathUpdate
    \/ AppendFails

Answer ==
    \/ AnswerOverwrite
    \/ AnswerPathUpdate

Next == Step \/ Answer

\* One run of main().
Spec == Init /\ [][Next]_vars

\* Configuration files: the files of `names`, each holding `text`.
FilesOf(names, text, readable) ==
    [f \in RcNames |-> IF f \in names THEN File(text, readable) ELSE NoFile]

\* Home directories: no configuration file (with or without ~/.config/fish),
\* or some of them, holding one of the contents, readable or not.
AllRcs ==
    {[files |-> NoFiles, fish_dir |-> d] : d \in BOOLEAN}
    \cup {[files |-> FilesOf(x[1], x[2], x[3]), fish_dir |-> "config.fish" \in x[1]] :
             x \in {{".bash_profile", ".profile"}, {".profile"}, RcNames}
                   \X {<<>>, TextOther, TextOtherLine, TextConfigured, TextComment}
                   \X {TRUE}
                   \cup
                   {{".bash_profile", ".profile"}, {".profile"}, RcNames}
                   \X {TextOther}
                   \X {FALSE}}

\* Install directories of one script: missing, or holding a file or a
\* directory under its name.
OneDests ==
    {[exists |-> FALSE, entries |-> EmptyDest]}
    \cup {[exists |-> TRUE, entries |-> [EmptyDest EXCEPT ![NameA] = e]] :
             e \in {OldFile, OldDir}}

InitAdvisor ==
    InitFrom({BinOf({NameA}, {})}, OneDests,
             {Text_h_b, Text_tilde, Text_o, Text_o_quote_t, Text_hb}, {TRUE},
             {PathWithout, PathWith},
             {ShellBash, ShellZsh, ShellZshUpper, ShellFish, ShellSh, ShellUnset},
             AllRcs)

NextAdvisor == Next \/ Rerun

\* Runs of main(), one after the other, on the home directories, shells and
\* install directories of the PATH advisor.
SpecAdvisor == InitAdvisor /\ [][NextAdvisor]_vars

\* Three scripts, or one beside an invalid name, and an install directory
\* that is missing, holds a file for each script, or holds a file, a directory
\* and a symbolic link.
InitFair ==
    InitFrom({BinOf(ScriptNames, {}), BinOf({NameA, NameBad}, {})},
             {[exists |-> FALSE, entries |-> EmptyDest],
              [exists |-> TRUE, entries |-> [n \in ScriptNames |-> OldFile]],
              [exists |-> TRUE,
               entries |-> [EmptyDest EXCEPT ![NameA] = OldFile, ![NameB] = OldDir,
                                             ![NameC] = OldLink]],
              [exists |-> TRUE,
               entries |-> [EmptyDest EXCEPT ![NameA] = OldLink, ![NameC] = OldDir]]},
             {Text_h_b}, BOOLEAN, {PathWithout}, {ShellBash},
             {[files |-> NoFiles, fish_dir |-> FALSE]})

\* One run of main() whose own steps are never put off for ever; whether a
\* prompt is answered is up to the user.
FairSpec == InitFair /\ [][Next]_vars /\ WF_vars(Step)

-----------------------------------------------------------------------------
(* Properties *)

\* n is a source script: a regular, non-hidden file of bin that the naming
\* pattern accepts.
IsSourceScript(n) ==
    bin[n] = "file" /\ Head(n) # "." /\ SCRIPT_NAME_PATTERN(n)

\* bin holds a regular, non-hidden file that the naming pattern rejects.
InvalidNamePresent ==
    \E n \in BinNames : bin[n] = "file" /\ Head(n) # "." /\ ~SCRIPT_NAME_PATTERN(n)

\* C1: when bin holds a regular, non-hidden file that fails the naming
\* pattern, the run never gets past discovery, changes nothing on the file
\* system (install directory, destination entries, configuration files) and
\* exits with status 2, also with valid scripts beside the invalid one.
C1_InvalidNameAbortsUntouched ==
    InvalidNamePresent =>
        /\ pc \in {"start", "done"}
        /\ FileSystem = fs0
        /\ pc = "done" => exit_code = 2

\* C1's case: an invalid name beside two valid scripts, the run ended with 2
\* and the install directory still missing.
C1_Witness ==
    /\ pc = "done"
    /\ exit_code = 2
    /\ bin[NameDash] = "file"
    /\ IsSourceScript(NameA) /\ IsSourceScript(NameC)
    /\ ~install_dir_exists

\* The run asked whether to overwrite, and got `response`.
OverwritePrompted == responses.overwrite # <<>>

\* C2 as stated: with a non-empty overwrite list and no --yes, a response
\* other than 'y' or 'yes' ends the run with status 1 and the file system as
\* it was.
C2_Original ==
    (/\ pc = "done"
     /\ overwrite_paths # <<>>
     /\ ~args.yes
     /\ OverwritePrompted
     /\ responses.overwrite[1] \notin {TextY, TextYes})
    => exit_code = 1 /\ FileSystem = fs0

\* C2, amended: with a non-empty overwrite list and no --yes, a response that,
\* stripped of surrounding white space and lower-cased, is other than 'y' or
\* 'yes' (the empty response included) ends the run with status 1 and the
\* file system as it was before the run.
C2_DeclineLeavesUntouched ==
    (/\ pc = "done"
     /\ overwrite_paths # <<>>
     /\ ~args.yes
     /\ OverwritePrompted
     /\ Lower(Strip(responses.overwrite[1])) \notin {TextY, TextYes})
    => exit_code = 1 /\ FileSystem = fs0

\* C2's case: two entries to overwrite, the empty response, status 1.
C2_Witness ==
    /\ pc = "done"
    /\ ~args.yes
    /\ Len(overwrite_paths) = 2
    /\ responses.overwrite = <<<<>>>>
    /\ exit_code = 1

\* C4: a real directory in the install directory under the name of a source
\* script is never removed or replaced, in either mode and whatever the
\* answers, and the run that meets it ends with a non-zero status.
C4_DirectoryNeverReplaced ==
    \A n \in ScriptNames :
        (fs0.dest[n].kind = "dir" /\ IsSourceScript(n)) =>
            /\ dest[n] = fs0.dest[n]
            /\ pc = "done" => exit_code # 0

\* C4's case: symlink mode, the overwrite confirmed, the loop stopped at the
\* directory b-c after installing a.
C4_Witness ==
    /\ pc = "done"
    /\ args.symlink
    /\ fs0.dest[NameB].kind = "dir"
    /\ failed_at = 2
    /\ source_scripts[2] = NameB
    /\ responses.overwrite = <<TextYes>>
    /\ exit_code = 1

\* The install loop failed on a directory in the way of script n.
FailedOnDirectory(n) ==
    /\ failed_at > 0
    /\ source_scripts[failed_at] = n
    /\ fs0.dest[n].kind = "dir"

\* C5 as stated: when the install fails on a directory in the way, no
\* destination entry of any other source script has been removed, created or
\* replaced.
C5_Original ==
    \A n \in ScriptNames :
        FailedOnDirectory(n) =>
            \A m \in ScriptNames \ {n} : dest[m] = fs0.dest[m]

\* C5, amended: when the install fails on a directory in the way of a script,
\* that directory is untouched and no destination entry of a script that
\* sorts after it, or that belongs to no source script, has been removed,
\* created or replaced; the scripts that sort before it have been installed.
C5_FailsBeforeLaterEntries ==
    \A n \in ScriptNames :
        FailedOnDirectory(n) =>
            /\ dest[n] = fs0.dest[n]
            /\ \A m \in ScriptNames \ {n} :
                   IF IsSourceScript(m) /\ TextLess(m, n)
                   THEN dest[m] = InstalledEntry(args.symlink)
                   ELSE dest[m] = fs0.dest[m]

\* C5's case: the directory b-c between a, already replaced by its copy, and
\* c.sh, whose old symbolic link is still there.
C5_Witness ==
    /\ FailedOnDirectory(NameB)
    /\ IsSourceScript(NameA) /\ IsSourceScript(NameC)
    /\ fs0.dest[NameA] = OldFile /\ dest[NameA] = NewCopy
    /\ fs0.dest[NameC] = OldLink /\ dest[NameC] = OldLink

\* C6: when a call of the install loop raises OSError at position k, the run
\* exits with status 1, the destinations after k are as they were, those
\* before k stay installed, and the PATH advisor does not run: no target is
\* computed, no prompt for it answered, the configuration files are unchanged.
C6_ErrorAbortsWithoutRollback ==
    failed_at > 0 =>
        /\ pc = "done" /\ exit_code = 1
        /\ \A j \in DOMAIN source_scripts :
               /\ j > failed_at => dest[source_scripts[j]] = fs0.dest[source_scripts[j]]
               /\ j < failed_at => dest[source_scripts[j]] = InstalledEntry(args.symlink)
        /\ installed_paths = SubSeq(source_scripts, 1, failed_at - 1)
        /\ target = NoTarget /\ responses.path = <<>>
        /\ rc = fs0.rc /\ fish_dir_exists = fs0.fish_dir_exists

\* C6's case: copy2 broke off on the second of three scripts.
C6_Witness ==
    /\ pc = "done"
    /\ failed_at = 2
    /\ Len(source_scripts) = 3
    /\ fs0.dest[source_scripts[2]] = OldFile
    /\ dest[source_scripts[2]] = PartialCopy
    /\ dest[source_scripts[1]] = NewCopy
    /\ fs0.dest[source_scripts[3]] = OldLink

\* C7: with --yes no run waits for input: neither prompt is reached or
\* answered, and the run comes to its exit status.
C7_YesNeverPrompts ==
    /\ [](args.yes => /\ pc \notin {"confirm", "path_prompt"}
                      /\ responses = NoResponses)
    /\ (args.yes /\ pc = "start") ~> (pc = "done" /\ exit_code \in {0, 1, 2})

\* C7's case: --yes, three entries overwritten and the line appended, without
\* a prompt.
C7_Witness ==
    /\ args.yes
    /\ pc = "done"
    /\ exit_code = 0
    /\ Len(overwrite_paths) = 3
    /\ installed_paths = source_scripts
    /\ appended

\* Some non-empty entry of PATH names the install directory.
InstallDirOnPath ==
    \E entry \in Range(SplitOn(env.PATH, ":")) :
        entry # <<>> /\ Resolve(entry) = Resolve(args.install_dir)

\* The target of this run's advisor, as it finds the home directory.
TargetAtStart == detect_path_update_target(install_dir, env.SHELL, fs0.rc)

\* The target file, as the run found it, holds the PATH entry already.
ConfiguredAtStart == rc_file_has_path_entry(TargetAtStart, install_dir, fs0.rc)

\* The update is confirmed: by --yes, or by an affirmative answer to its prompt.
UpdateConfirmed ==
    \/ args.yes
    \/ /\ responses.path # <<>>
       /\ Lower(Strip(responses.path[1])) \in {TextY, TextYes}

\* C3: once a run has appended the suggested line, a later run with the same
\* install directory, SHELL and home directory finds the file configured and
\* leaves the (readable) configuration files as they are.
C3_AppendIsIdempotent ==
    (appended_before /\ \A f \in RcNames : rc[f].readable) => rc = fs0.rc

\* C8: the configuration files and ~/.config/fish change only when the install
\* directory is not on PATH, the target file is not configured for it already
\* and the update is confirmed; when the directory is on PATH the advisor
\* neither prompts nor computes a target.
C8_AppendOnlyWhenOffered ==
    /\ (rc # fs0.rc \/ fish_dir_exists # fs0.fish_dir_exists \/ pc = "append") =>
           ~InstallDirOnPath /\ ~ConfiguredAtStart /\ UpdateConfirmed
    /\ InstallDirOnPath =>
           pc # "path_prompt" /\ responses.path = <<>> /\ target = NoTarget

\* C8's case: off PATH, not configured, the update declined with 'n': the
\* existing file is as it was.
C8_Witness ==
    /\ pc = "done"
    /\ ~args.yes
    /\ responses.path = <<<<"n">>>>
    /\ ~InstallDirOnPath
    /\ ~ConfiguredAtStart
    /\ fs0.rc[target.rc_file].exists
    /\ rc = fs0.rc

\* The first of ~/.bashrc, ~/.bash_profile, ~/.profile the run found, and
\* ~/.bashrc when it found none.
FirstBashFile ==
    LET order == <<".bashrc", ".bash_profile", ".profile">>
        found == {i \in DOMAIN order : fs0.rc[order[i]].exists}
    IN  IF found = {} THEN ".bashrc"
        ELSE order[CHOOSE i \in found : \A j \in found : i <= j]

\* The configuration file the claim gives a shell name.
RcFileOf(shell_name) ==
    IF shell_name = TextZsh THEN ".zshrc"
    ELSE IF shell_name = TextBash THEN FirstBashFile
    ELSE IF shell_name = TextFish THEN "config.fish"
    ELSE ".profile"

\* The line is a fish path-prepend command for fish, an export of PATH
\* otherwise.
LineFits(shell_name, line) ==
    IF shell_name = TextFish
    THEN StartsWith(line, TextFishAddPath) /\ ~Contains(line, TextPATH)
    ELSE StartsWith(line, <<"e", "x", "p", "o", "r", "t", " ", "P", "A", "T", "H", "=">>)

\* C9 as stated: the target follows from the base name of SHELL.
C9_Original ==
    target # NoTarget =>
        /\ target.rc_file = RcFileOf(PathName(env.SHELL))
        /\ LineFits(PathName(env.SHELL), target.path_line)

\* C9, amended: the target follows from the lower-cased base name of SHELL:
\* zsh gives ~/.zshrc, bash the first existing of ~/.bashrc, ~/.bash_profile,
\* ~/.profile (~/.bashrc when none exists), fish ~/.config/fish/config.fish,
\* anything else, an unset or empty SHELL included, ~/.profile; the line is a
\* fish path-prepend command for fish alone and an export of PATH otherwise.
C9_TargetFollowsShell ==
    target # NoTarget =>
        /\ target.rc_file = RcFileOf(Lower(PathName(env.SHELL)))
        /\ LineFits(Lower(PathName(env.SHELL)), target.path_line)

\* C9's case: bash without ~/.bashrc takes ~/.bash_profile before ~/.profile.
C9_Witness ==
    /\ env.SHELL = ShellBash
    /\ ~fs0.rc[".bashrc"].exists
    /\ fs0.rc[".bash_profile"].exists
    /\ fs0.rc[".profile"].exists
    /\ target.rc_file = ".bash_profile"

\* The file after an append: the old content, a line break if `separated`,
\* the marker line and the suggested line.
Extended(old, separated, line) ==
    old \o (IF separated THEN <<"\n">> ELSE <<>>)
    \o PATH_UPDATE_MARKER \o <<"\n">> \o line \o <<"\n">>

\* C10 as stated: the append extends the file by an optional line break, the
\* marker line and the suggested line; the line break is written exactly when
\* the file existed with non-empty content that does not end in a line break.
C10_Original ==
    appended =>
        LET old == fs0.rc[target.rc_file]
        IN  rc[target.rc_file].text =
                Extended(old.text,
                         old.exists /\ old.text # <<>> /\ old.text[Len(old.text)] # "\n",
                         target.path_line)

\* C10, amended: as stated, but the line break is written exactly when the
\* file existed, could be read, and holds non-empty content that does not end
\* in a line break; after a file that cannot be read no line break is written.
C10_AppendExtends ==
    appended =>
        LET old == fs0.rc[target.rc_file]
        IN  /\ rc[target.rc_file].text =
                   Extended(old.text,
                            /\ old.exists
                            /\ old.readable
                            /\ old.text # <<>>
                            /\ old.text[Len(old.text)] # "\n",
                            target.path_line)
            /\ \A f \in RcNames \ {target.rc_file} : rc[f] = fs0.rc[f]

\* C10's case: a readable file ending without a line break gets one before
\* the marker.
C10_Witness ==
    /\ appended
    /\ fs0.rc[target.rc_file] = File(TextOther, TRUE)
    /\ rc[target.rc_file].text[Len(TextOther) + 1] = "\n"

=============================================================================
